---- MODULE Spec2Model ----
(***************************************************************************)
(* CYBERTRACKER scanner: the local mirror of the MalwareBazaar hash feed   *)
(* (scanner/data/hashes.csv), its staging copy (hashes.csv.tmp), the       *)
(* sqlite table malware_hashes, the watermark file metadata.json, and the  *)
(* two entry points that touch them: update_hashes.py (the sync) and       *)
(* main.py (freshness check, sync when stale, lookup).                     *)
(*                                                                         *)
(* A feed file is modelled by its data rows, in file order, below the      *)
(* '# "first_seen_utc","sha256_hash",...' header line; the '#' banner      *)
(* lines and the header carry no parseable timestamp and no record.        *)
(* A content digest (file_sha256) is modelled by the content itself:       *)
(* sha256 collisions are not modelled.                                     *)
(***************************************************************************)
EXTENDS Integers, Sequences, FiniteSets, TLC

\* ------------------------------------------------------------------ bounds

\* Longest feed file, in data rows.
MaxRows == 2

\* ------------------------------------------------------------ value domains

None == "None"
\* A file of feed rows that does not exist, and one that holds these rows.
NoFile == [exists |-> FALSE, rows |-> << >>]
File(rows) == [exists |-> TRUE, rows |-> rows]

\* The database without the malware_hashes table, and with it.
NoTable == [exists |-> FALSE, rows |-> << >>]
Table(rows) == [exists |-> TRUE, rows |-> rows]

\* metadata.json is missing.
NoMeta == "NoMeta"

NoSha == "NoSha"

\* The "%Y-%m-%d %H:%M:%S" strings of the model, oldest first.
Clock == << "2024-01-10 12:00:00", "2024-01-10 12:00:01" >>

Timestamps == { Clock[i] : i \in DOMAIN Clock }

\* A first field that is no timestamp.
BadTs == "n/a"

\* datetime.strptime(s, "%Y-%m-%d %H:%M:%S"): the position of s on the clock,
\* 0 when strptime raises (s is None or no timestamp).
strptime(s) ==
    IF s \in Timestamps THEN CHOOSE i \in DOMAIN Clock : Clock[i] = s ELSE 0

\* dt.strftime("%Y-%m-%d %H:%M:%S") of a datetime.
strftime(dt) == Clock[dt]

\* One data row of the feed: first_seen_utc, sha256_hash, signature,
\* file_type_guess, reporter. sha = NoSha is a short row: DictReader gives None
\* for the missing fields.
Row(t, s, n, f) == [ts |-> t, sha |-> s, name |-> n, fam |-> f, src |-> "abuse_ch"]

\* The rows of the model: one whose first field is no timestamp and whose
\* digest is in upper case, one well-formed row for the same digest under
\* another label, and one short row with the older timestamp.
FeedRows ==
    { Row(BadTs, "D1", "Emotet", "exe"),
      Row(Clock[2], "d1", "Qakbot", "dll"),
      Row(Clock[1], NoSha, "Emotet", "exe") }

RECURSIVE SeqsUpTo(_, _)
SeqsUpTo(S, n) ==
    IF n = 0 THEN { << >> }
    ELSE LET shorter == SeqsUpTo(S, n - 1)
         IN shorter \cup { Append(q, x) : q \in { r \in shorter : Len(r) = n - 1 }, x \in S }

\* The contents the bulk download can return.
Feeds == { File(r) : r \in SeqsUpTo(FeedRows, MaxRows) }

\* The last line of a file whose write stopped half way: a first field cut
\* short and no further fields.
TornRow == Row("2024-01-1", NoSha, None, None)

\* What TMP_FILE holds when f.write stopped half way: some rows of the
\* response body and a torn one.
PartialFiles == { File(Append(r, TornRow)) : r \in SeqsUpTo(FeedRows, MaxRows - 1) }

\* Digests of the files a lookup is asked about.
QueryDigests == { "d1", "d2" }

\* ------------------------------------------------------------------- state

VARIABLES
    mirror,         \* CSV_FILE: NoFile or the rows of scanner/data/hashes.csv
    tmp,            \* TMP_FILE: NoFile or the rows of hashes.csv.tmp
    table,          \* malware_hashes: NoTable or its rows, in insertion order
    meta,           \* metadata.json: NoMeta or its "last_api_timestamp"
    proc,           \* the running script: "none", "update" or "lookup"
    pc,             \* its position
    force,          \* the --force flag of the running script
    last_modified,  \* localHashes_Check.last_modified of the running process
    latest,         \* what the oracle gave the last check_db() that returned
    up_to_date,     \* main.py's up_to_date: "unset", "True", "False", None
    sync,           \* the sync of this run: "none", "running", "no_change", "replaced", "failed"
    rebuild,        \* rebuild_database of this run: "none", "running", "ok", "failed"
    pre,            \* mirror, table and meta when the sync of this run began
    fetched,        \* download_csv of this run: "none", "ok", "failed"
    wrote_meta,     \* whether import_hashes wrote metadata.json in this run
    verdict,        \* << >>, or the one verdict main.py printed
    got,            \* NoFile, or the response body download_csv wrote in this run
    response        \* NoAnswer, or the API answer the oracle was last given

vars == << mirror, tmp, table, meta, proc, pc, force, last_modified, latest,
           up_to_date, sync, rebuild, pre, fetched, wrote_meta, verdict,
           got, response >>

files == << mirror, tmp, table, meta >>

NoPre == [mirror |-> NoFile, table |-> NoTable, meta |-> NoMeta]

\* ------------------------------------------------------- pure functions

\* row["sha256_hash"].strip().lower() on the digests of the model.
lower(s) == IF s = "D1" THEN "d1" ELSE s

\* import_hashes._newest_first_seen_from_csv: the newest parseable first field,
\* as a datetime; 0 (None) when there is none or the file cannot be read.
RECURSIVE newest_scan(_, _)
newest_scan(rows, newest) ==
    IF rows = << >> THEN newest
    ELSE LET dt == strptime(Head(rows).ts)
         IN IF dt = 0 THEN newest_scan(Tail(rows), newest)
            ELSE IF newest = 0 \/ dt > newest THEN newest_scan(Tail(rows), dt)
            ELSE newest_scan(Tail(rows), newest)

newest_first_seen_from_csv(file) ==
    IF ~file.exists THEN 0 ELSE newest_scan(file.rows, 0)

\* localHashes_Check._newest_first_seen_from_csv: the same scan, None for a
\* missing file.
local_newest_first_seen(file) ==
    IF ~file.exists THEN 0 ELSE newest_scan(file.rows, 0)

\* Whether the table holds a row with this primary key.
HasKey(tbl, k) == \E i \in DOMAIN tbl.rows : tbl.rows[i].sha = k

\* INSERT OR REPLACE in place of INSERT OR IGNORE: the row with the key is
\* deleted and the new row added.
InsertOrReplace(tbl, e) ==
    Table(Append(SelectSeq(tbl.rows, LAMBDA r : r.sha # e.sha), e))

\* INSERT OR IGNORE INTO malware_hashes: the row is added unless its primary
\* key is already there.
InsertOrIgnore(tbl, e) ==
    IF HasKey(tbl, e.sha) THEN tbl ELSE Table(Append(tbl.rows, e))

\* One pass of the import loop body: a row whose insert raises (no table, no
\* sha256_hash field) is reported and skipped.
ImportRow(tbl, row) ==
    IF ~tbl.exists \/ row.sha = NoSha THEN tbl
    ELSE InsertOrIgnore(tbl, [sha |-> lower(row.sha), name |-> row.name,
                              fam |-> row.fam, src |-> row.src])

\* The import loop over the rows of the mirror.
RECURSIVE ImportRows(_, _)
ImportRows(tbl, rows) ==
    IF rows = << >> THEN tbl
    ELSE ImportRows(ImportRow(tbl, Head(rows)), Tail(rows))

\* init_db.py: CREATE TABLE IF NOT EXISTS malware_hashes.
CreateTable(tbl) == IF tbl.exists THEN tbl ELSE Table(<< >>)

\* check_hash with the WHERE clause lost: fetchone gives the first row of the
\* table, whatever its key.
check_hash_any_row(tbl, h) ==
    IF ~tbl.exists \/ tbl.rows = << >> THEN << >>
    ELSE << tbl.rows[1].name, tbl.rows[1].fam >>

\* db.check_hash: (malware_name, malware_family) of the first row with this
\* key (fetchone); None, written << >>, when there is none or when the table
\* is missing ("no such table" is caught).
check_hash(tbl, h) ==
    IF ~tbl.exists THEN << >>
    ELSE IF HasKey(tbl, h)
         THEN LET r == tbl.rows
                  i == CHOOSE j \in DOMAIN r :
                         r[j].sha = h /\ \A k \in DOMAIN r : r[k].sha = h => j <= k
              IN << r[i].name, r[i].fam >>
         ELSE << >>

\* file_sha256 of a file: its content stands for its digest.
file_sha256(file) == file.rows

\* What the MalwareBazaar API can answer: no usable answer (network error,
\* HTTP error, query_status not ok), or the first_seen fields of its recent
\* samples.
ApiAnswers ==
    { [ok |-> FALSE, data |-> << >>] }
        \cup { [ok |-> TRUE, data |-> d] : d \in SeqsUpTo(Timestamps \cup { BadTs }, MaxRows) }

\* The oracle has not been asked.
NoAnswer == [ok |-> FALSE, data |-> << None >>]

RECURSIVE MaxDt(_)
MaxDt(stamps) ==
    IF stamps = << >> THEN 0
    ELSE LET m == MaxDt(Tail(stamps))
             d == strptime(Head(stamps))
         IN IF d > m THEN d ELSE m

\* getRecentAPIData.get_latest_sample_timestamp: the newest first_seen as a
\* string; None for a failed query, an empty data list, or when any first_seen
\* fails to parse (strptime raises inside the list comprehension and the
\* except clause returns None).
get_latest_sample_timestamp(answer) ==
    IF ~answer.ok THEN None
    ELSE IF answer.data = << >> THEN None
    ELSE IF \E i \in DOMAIN answer.data : strptime(answer.data[i]) = 0 THEN None
    ELSE strftime(MaxDt(answer.data))

\* What the oracle can return over all those answers.
OracleResults == { get_latest_sample_timestamp(a) : a \in ApiAnswers }

\* API_LocalComparison._parse_ts.
parse_ts(s) == strptime(s)

\* API_LocalComparison.main with > where it has >=.
check_db_strict(lat, lm, md) ==
    LET latest_dt == IF lat # None THEN parse_ts(lat) ELSE 0
        local_dt == IF lm # None THEN parse_ts(lm) ELSE 0
        meta_ts == IF md # NoMeta THEN parse_ts(md) ELSE 0
    IN IF md # NoMeta /\ meta_ts # 0 /\ latest_dt # 0 /\ meta_ts > latest_dt THEN TRUE
       ELSE IF latest_dt # 0 /\ local_dt # 0 THEN local_dt > latest_dt
       ELSE lat = lm

\* API_LocalComparison.main, given the oracle's answer, the module-level
\* last_modified and the content of metadata.json.
check_db(lat, lm, md) ==
    LET latest_dt == IF lat # None THEN parse_ts(lat) ELSE 0
        local_dt == IF lm # None THEN parse_ts(lm) ELSE 0
        meta_ts == IF md # NoMeta THEN parse_ts(md) ELSE 0
    IN IF md # NoMeta /\ meta_ts # 0 /\ latest_dt # 0 /\ meta_ts >= latest_dt THEN TRUE
       ELSE IF latest_dt # 0 /\ local_dt # 0 THEN local_dt >= latest_dt
       ELSE lat = lm

\* A Python bool as main.py prints it.
Str(b) == IF b THEN "True" ELSE "False"

\* ------------------------------------------------------------ initial state

\* A fresh checkout: no mirror, no staging file, no table, no metadata, and no
\* script running.
Init ==
    /\ mirror = NoFile
    /\ tmp = NoFile
    /\ table = NoTable
    /\ meta = NoMeta
    /\ proc = "none"
    /\ pc = "idle"
    /\ force = FALSE
    /\ last_modified = None
    /\ latest = None
    /\ up_to_date = "unset"
    /\ sync = "none"
    /\ rebuild = "none"
    /\ pre = NoPre
    /\ fetched = "none"
    /\ wrote_meta = FALSE
    /\ verdict = << >>
    /\ got = NoFile
    /\ response = NoAnswer

\* Where control goes when update_hashes.main returns: the script ends, or
\* main.py re-runs the freshness check.
AfterSync == IF proc = "update" THEN "done" ELSE "recheck"

\* Where control goes when update_hashes.main raises: the script dies, or
\* main.py prints "Programmatic update failed" and goes on to the lookup.
AfterRaise == IF proc = "update" THEN "done" ELSE "lookup"

\* --------------------------------------------- update_hashes.py as a script

\* python scanner/update_hashes.py [--force]: main(force=force_flag) begins.
StartUpdate ==
    /\ pc = "idle"
    /\ \E f \in BOOLEAN : force' = f
    /\ proc' = "update"
    /\ pc' = "download"
    /\ sync' = "running"
    /\ pre' = [mirror |-> mirror, table |-> table, meta |-> meta]
    /\ UNCHANGED << files, last_modified, latest, up_to_date, rebuild, verdict, fetched, wrote_meta,
                    got, response >>

\* download_csv succeeds: the response body is written to TMP_FILE.
Download ==
    /\ pc = "download"
    /\ \E c \in Feeds : tmp' = c /\ got' = c
    /\ fetched' = "ok"
    /\ pc' = "initdb"
    /\ UNCHANGED << mirror, table, meta, proc, force, last_modified, latest,
                    up_to_date, sync, rebuild, pre, verdict, wrote_meta,
                    response >>

\* download_csv with the request wrapped in a try that reports the error and
\* returns: main goes on with whatever TMP_FILE holds.
DownloadFailSwallowed ==
    /\ pc = "download"
    /\ fetched' = "failed"
    /\ pc' = "initdb"
    /\ UNCHANGED << files, proc, force, last_modified, latest, up_to_date,
                    sync, rebuild, pre, verdict, wrote_meta,
                    got, response >>

\* download_csv raises (timeout, connection error, raise_for_status) before
\* TMP_FILE is opened.
DownloadFail ==
    /\ pc = "download"
    /\ sync' = "failed"
    /\ fetched' = "failed"
    /\ pc' = AfterRaise
    /\ UNCHANGED << files, proc, force, last_modified, latest, up_to_date,
                    rebuild, pre, verdict, wrote_meta,
                    got, response >>

\* download_csv with a failed write reported and swallowed: main goes on with
\* the half-written TMP_FILE.
DownloadPartialSwallowed ==
    /\ pc = "download"
    /\ \E c \in PartialFiles : tmp' = c
    /\ fetched' = "failed"
    /\ pc' = "initdb"
    /\ UNCHANGED << mirror, table, meta, proc, force, last_modified, latest,
                    up_to_date, sync, rebuild, pre, verdict, wrote_meta,
                    got, response >>

\* download_csv lines 38-39: f.write raises half way (disk full, I/O error);
\* TMP_FILE is left with what was written and the exception leaves main.
DownloadPartial ==
    /\ pc = "download"
    /\ \E c \in PartialFiles : tmp' = c
    /\ fetched' = "failed"
    /\ sync' = "failed"
    /\ pc' = AfterRaise
    /\ UNCHANGED << mirror, table, meta, proc, force, last_modified, latest,
                    up_to_date, rebuild, pre, verdict, wrote_meta,
                    got, response >>

\* update_hashes.main line 62: init_db.py exits 0.
EnsureSchema ==
    /\ pc = "initdb"
    /\ table' = CreateTable(table)
    /\ pc' = "compare"
    /\ UNCHANGED << mirror, tmp, meta, proc, force, last_modified, latest,
                    up_to_date, sync, rebuild, pre, verdict, fetched, wrote_meta,
                    got, response >>

\* update_hashes.main line 62: init_db.py exits non-zero, check=True raises.
EnsureSchemaFail ==
    /\ pc = "initdb"
    /\ sync' = "failed"
    /\ pc' = AfterRaise
    /\ UNCHANGED << files, proc, force, last_modified, latest, up_to_date,
                    rebuild, pre, verdict, fetched, wrote_meta,
                    got, response >>

\* No CSV_FILE yet: os.replace(TMP_FILE, CSV_FILE), then rebuild_database.
FirstRun ==
    /\ pc = "compare"
    /\ ~mirror.exists
    /\ mirror' = tmp
    /\ tmp' = NoFile
    /\ rebuild' = "running"
    /\ pc' = "rebuild_init"
    /\ UNCHANGED << table, meta, proc, force, last_modified, latest,
                    up_to_date, sync, pre, verdict, fetched, wrote_meta,
                    got, response >>

\* The equal-digest branch rebuilding without looking at the force flag.
NoChangeRebuilds ==
    /\ pc = "compare"
    /\ mirror.exists
    /\ file_sha256(mirror) = file_sha256(tmp)
    /\ ~force
    /\ tmp' = NoFile
    /\ rebuild' = "running"
    /\ pc' = "rebuild_init"
    /\ UNCHANGED << mirror, table, meta, proc, force, last_modified, latest,
                    up_to_date, sync, pre, verdict, fetched, wrote_meta,
                    got, response >>

\* old_hash == new_hash and force is not set: TMP_FILE is removed, main returns.
NoChange ==
    /\ pc = "compare"
    /\ mirror.exists
    /\ file_sha256(mirror) = file_sha256(tmp)
    /\ ~force
    /\ tmp' = NoFile
    /\ sync' = "no_change"
    /\ pc' = AfterSync
    /\ UNCHANGED << mirror, table, meta, proc, force, last_modified, latest,
                    up_to_date, rebuild, pre, verdict, fetched, wrote_meta,
                    got, response >>

\* The equal-digest branch returning without looking at the force flag.
ForceIgnored ==
    /\ pc = "compare"
    /\ mirror.exists
    /\ file_sha256(mirror) = file_sha256(tmp)
    /\ force
    /\ tmp' = NoFile
    /\ sync' = "no_change"
    /\ pc' = AfterSync
    /\ UNCHANGED << mirror, table, meta, proc, force, last_modified, latest,
                    up_to_date, rebuild, pre, verdict, fetched, wrote_meta,
                    got, response >>

\* old_hash == new_hash and force is set: TMP_FILE is removed, then
\* rebuild_database.
ForceRebuild ==
    /\ pc = "compare"
    /\ mirror.exists
    /\ file_sha256(mirror) = file_sha256(tmp)
    /\ force
    /\ tmp' = NoFile
    /\ rebuild' = "running"
    /\ pc' = "rebuild_init"
    /\ UNCHANGED << mirror, table, meta, proc, force, last_modified, latest,
                    up_to_date, sync, pre, verdict, fetched, wrote_meta,
                    got, response >>

\* The digests differ: os.replace(TMP_FILE, CSV_FILE), then rebuild_database.
Replace ==
    /\ pc = "compare"
    /\ mirror.exists
    /\ file_sha256(mirror) # file_sha256(tmp)
    /\ mirror' = tmp
    /\ tmp' = NoFile
    /\ rebuild' = "running"
    /\ pc' = "rebuild_init"
    /\ UNCHANGED << table, meta, proc, force, last_modified, latest,
                    up_to_date, sync, pre, verdict, fetched, wrote_meta,
                    got, response >>

\* rebuild_database line 48: init_db.py exits 0.
RebuildInitDb ==
    /\ pc = "rebuild_init"
    /\ table' = CreateTable(table)
    /\ pc' = "import"
    /\ UNCHANGED << mirror, tmp, meta, proc, force, last_modified, latest,
                    up_to_date, sync, rebuild, pre, verdict, fetched, wrote_meta,
                    got, response >>

\* rebuild_database line 48: init_db.py exits non-zero.
RebuildInitDbFail ==
    /\ pc = "rebuild_init"
    /\ rebuild' = "failed"
    /\ sync' = "failed"
    /\ pc' = AfterRaise
    /\ UNCHANGED << files, proc, force, last_modified, latest, up_to_date,
                    pre, verdict, fetched, wrote_meta,
                    got, response >>

\* import_hashes.py lines 10-41: the import loop over the mirror and the commit.
Import ==
    /\ pc = "import"
    /\ table' = ImportRows(table, mirror.rows)
    /\ pc' = "metadata"
    /\ UNCHANGED << mirror, tmp, meta, proc, force, last_modified, latest,
                    up_to_date, sync, rebuild, pre, verdict, fetched, wrote_meta,
                    got, response >>

\* import_hashes.py reporting a failed import and going on to its metadata
\* block: nothing is committed and the script still exits 0.
ImportFailSwallowed ==
    /\ pc = "import"
    /\ pc' = "metadata"
    /\ UNCHANGED << files, proc, force, last_modified, latest, up_to_date,
                    sync, rebuild, pre, verdict, fetched, wrote_meta,
                    got, response >>

\* import_hashes.py dies before its commit (the connect, the open or the commit
\* raises): nothing is committed, rebuild_database raises.
ImportFail ==
    /\ pc = "import"
    /\ rebuild' = "failed"
    /\ sync' = "failed"
    /\ pc' = AfterRaise
    /\ UNCHANGED << files, proc, force, last_modified, latest, up_to_date,
                    pre, verdict, fetched, wrote_meta,
                    got, response >>

\* What main reports once rebuild_database returned.
Rebuilt == IF mirror = pre.mirror THEN "rebuilt" ELSE "replaced"

\* import_hashes.py lines 66-78, the write succeeding: metadata.json gets the
\* newest first field of the mirror, when there is one; import_hashes exits 0.
WriteMetadata ==
    /\ pc = "metadata"
    /\ LET newest == newest_first_seen_from_csv(mirror)
       IN meta' = IF newest # 0 THEN strftime(newest) ELSE meta
    /\ wrote_meta' = (newest_first_seen_from_csv(mirror) # 0)
    /\ rebuild' = "ok"
    /\ sync' = Rebuilt
    /\ pc' = AfterSync
    /\ UNCHANGED << mirror, tmp, table, proc, force, last_modified, latest,
                    up_to_date, pre, verdict, fetched,
                    got, response >>

\* import_hashes.py lines 73-78, the write raising: "Failed to write metadata"
\* is printed and import_hashes exits 0 all the same.
WriteMetadataFail ==
    /\ pc = "metadata"
    /\ newest_first_seen_from_csv(mirror) # 0
    /\ rebuild' = "ok"
    /\ sync' = Rebuilt
    /\ pc' = AfterSync
    /\ UNCHANGED << files, proc, force, last_modified, latest, up_to_date,
                    pre, verdict, fetched, wrote_meta,
                    got, response >>

\* ------------------------------------------------------------------ main.py

\* python scanner/main.py <file> [--force] with a mirror on disk: importing
\* API_LocalComparison runs localHashes_Check, which sets last_modified to the
\* newest first field of the mirror or, when it has none, to the file's mtime.
StartLookup ==
    /\ pc = "idle"
    /\ mirror.exists
    /\ \E f \in BOOLEAN : force' = f
    /\ LET newest == local_newest_first_seen(mirror)
       IN IF newest # 0 THEN last_modified' = strftime(newest)
          ELSE \E mtime \in Timestamps : last_modified' = mtime
    /\ proc' = "lookup"
    /\ pc' = "check"
    /\ UNCHANGED << files, latest, up_to_date, sync, rebuild, pre, verdict, fetched, wrote_meta,
                    got, response >>

\* The same without a mirror: os.path.getmtime raises FileNotFoundError while
\* main.py is still importing, and the process dies.
StartLookupCrash ==
    /\ pc = "idle"
    /\ ~mirror.exists
    /\ proc' = "lookup"
    /\ pc' = "crashed"
    /\ UNCHANGED << files, force, last_modified, latest, up_to_date, sync,
                    rebuild, pre, verdict, fetched, wrote_meta,
                    got, response >>

\* python scanner/main.py with no argument, with more than two, or with the
\* flag alone: the usage line is printed and the process exits 1.
UsageError ==
    /\ pc = "idle"
    /\ proc' = "lookup"
    /\ pc' = "usage"
    /\ UNCHANGED << files, force, last_modified, latest, up_to_date, sync,
                    rebuild, pre, verdict, fetched, wrote_meta,
                    got, response >>

\* main.py with "up_to_date is False or force" at line 16: the force flag
\* starts the sync whatever the check returned.
CheckDbForceSyncs ==
    /\ pc = "check"
    /\ \E lat \in OracleResults :
         LET res == check_db(lat, last_modified, meta)
         IN /\ latest' = lat
            /\ up_to_date' = Str(res)
            /\ IF res /\ ~force
               THEN /\ pc' = "lookup"
                    /\ UNCHANGED << sync, pre >>
               ELSE /\ pc' = "download"
                    /\ sync' = "running"
                    /\ pre' = [mirror |-> mirror, table |-> table, meta |-> meta]
    /\ UNCHANGED << files, proc, force, last_modified, rebuild, verdict,
                    fetched, wrote_meta, got, response >>

\* main.py lines 10-16: check_db(); a False result starts the sync.
CheckDb ==
    /\ pc = "check"
    /\ \E lat \in OracleResults :
         LET res == check_db(lat, last_modified, meta)
         IN /\ latest' = lat
            /\ up_to_date' = Str(res)
            /\ IF res
               THEN /\ pc' = "lookup"
                    /\ UNCHANGED << sync, pre >>
               ELSE /\ pc' = "download"
                    /\ sync' = "running"
                    /\ pre' = [mirror |-> mirror, table |-> table, meta |-> meta]
    /\ UNCHANGED << files, proc, force, last_modified, rebuild, verdict, fetched, wrote_meta,
                    got, response >>

\* main.py lines 10-16, check_db() raising: the warning is printed,
\* up_to_date is None, and "up_to_date is False" does not hold: no sync.
CheckDbRaise ==
    /\ pc = "check"
    /\ latest' = None
    /\ up_to_date' = None
    /\ pc' = "lookup"
    /\ UNCHANGED << files, proc, force, last_modified, sync, rebuild, pre,
                    verdict, fetched, wrote_meta, got, response >>

\* main.py lines 21-24, check_db() raising after the sync: up_to_date is None.
RecheckRaise ==
    /\ pc = "recheck"
    /\ latest' = None
    /\ up_to_date' = None
    /\ pc' = "lookup"
    /\ UNCHANGED << files, proc, force, last_modified, sync, rebuild, pre,
                    verdict, fetched, wrote_meta, got, response >>

\* main.py lines 20-29: check_db() again after update_hashes_main returned.
Recheck ==
    /\ pc = "recheck"
    /\ \E lat \in OracleResults :
         /\ latest' = lat
         /\ up_to_date' = Str(check_db(lat, last_modified, meta))
    /\ pc' = "lookup"
    /\ UNCHANGED << files, proc, force, last_modified, sync, rebuild, pre, verdict, fetched, wrote_meta,
                    got, response >>

\* main.py lines 33-52: the file's digest is looked up and the verdict printed.
Lookup ==
    /\ pc = "lookup"
    /\ \E h \in QueryDigests :
         LET result == check_hash(table, h)
         IN verdict' = << IF result # << >>
                          THEN [file_hash |-> h, known_malware |-> TRUE,
                                malware_name |-> result[1], malware_family |-> result[2],
                                detection_method |-> "Threat intelligence hash match"]
                          ELSE [file_hash |-> h, known_malware |-> FALSE,
                                malware_name |-> None, malware_family |-> None,
                                detection_method |->
                                    "No match in threat intelligence database"] >>
    /\ pc' = "done"
    /\ UNCHANGED << files, proc, force, last_modified, latest, up_to_date,
                    sync, rebuild, pre, fetched, wrote_meta,
                    got, response >>

\* main.py line 33: sha256_file cannot open the file it was given; the
\* exception is not caught and the process dies without a verdict.
LookupFileError ==
    /\ pc = "lookup"
    /\ pc' = "crashed"
    /\ UNCHANGED << files, proc, force, last_modified, latest, up_to_date,
                    sync, rebuild, pre, verdict, fetched, wrote_meta,
                    got, response >>

\* The script's process ends; the next one starts from nothing but the files.
Exit ==
    /\ pc \in { "done", "crashed", "usage" }
    /\ proc' = "none"
    /\ pc' = "idle"
    /\ force' = FALSE
    /\ last_modified' = None
    /\ latest' = None
    /\ up_to_date' = "unset"
    /\ sync' = "none"
    /\ rebuild' = "none"
    /\ pre' = NoPre
    /\ fetched' = "none"
    /\ wrote_meta' = FALSE
    /\ verdict' = << >>
    /\ got' = NoFile
    /\ response' = NoAnswer
    /\ UNCHANGED files

Next ==
    \/ StartUpdate
    \/ Download
    \/ DownloadFail
    \/ DownloadPartial
    \/ EnsureSchema
    \/ EnsureSchemaFail
    \/ FirstRun
    \/ NoChange
    \/ ForceRebuild
    \/ Replace
    \/ RebuildInitDb
    \/ RebuildInitDbFail
    \/ Import
    \/ ImportFail
    \/ WriteMetadata
    \/ WriteMetadataFail
    \/ StartLookup
    \/ StartLookupCrash
    \/ UsageError
    \/ CheckDb
    \/ CheckDbRaise
    \/ Recheck
    \/ RecheckRaise
    \/ Lookup
    \/ LookupFileError
    \/ Exit

Spec == Init /\ [][Next]_vars

\* -------------------------------- the store operations over any store state

\* The rows a table can hold, what the import makes of a feed row under either
\* digest a lookup asks about.
StoreEntries ==
    { [sha |-> d, name |-> r.name, fam |-> r.fam, src |-> r.src] :
        d \in QueryDigests, r \in FeedRows }

\* sha256 TEXT PRIMARY KEY: no two rows of the table share a key.
NoDuplicateKeys(tbl) ==
    \A i, j \in DOMAIN tbl.rows : tbl.rows[i].sha = tbl.rows[j].sha => i = j

\* The database states: no table, or a table of up to MaxRows rows.
Tables ==
    { NoTable } \cup
    { t \in { Table(r) : r \in SeqsUpTo(StoreEntries, MaxRows) } : NoDuplicateKeys(t) }

\* import_hashes.py about to run its import loop, or main.py about to look a
\* digest up, over any mirror and any database state.
InitStore ==
    /\ mirror \in Feeds
    /\ table \in Tables
    /\ tmp = NoFile
    /\ meta = NoMeta
    /\ force = FALSE
    /\ last_modified = None
    /\ latest = None
    /\ up_to_date = "unset"
    /\ fetched = "none"
    /\ wrote_meta = FALSE
    /\ verdict = << >>
    /\ got = NoFile
    /\ response = NoAnswer
    /\ pre = [mirror |-> mirror, table |-> table, meta |-> meta]
    /\ \/ proc = "update" /\ pc = "import" /\ sync = "running" /\ rebuild = "running"
       \/ proc = "lookup" /\ pc = "lookup" /\ sync = "none" /\ rebuild = "none"

NextStore ==
    \/ Import
    \/ WriteMetadata
    \/ WriteMetadataFail
    \/ Lookup
    \/ Exit

SpecStore == InitStore /\ [][NextStore]_vars

\* ------------------------------------------- the oracle over any API answer

\* main.py has imported its modules over any mirror, last_modified set by
\* localHashes_Check, and API_LocalComparison.main is about to ask the oracle.
InitOracle ==
    /\ mirror \in Feeds
    /\ tmp = NoFile
    /\ table = NoTable
    /\ meta = NoMeta
    /\ proc = "lookup"
    /\ pc = "oracle"
    /\ force = FALSE
    /\ LET newest == local_newest_first_seen(mirror)
       IN IF newest # 0 THEN last_modified = strftime(newest)
          ELSE last_modified \in Timestamps
    /\ latest = None
    /\ up_to_date = "unset"
    /\ sync = "none"
    /\ rebuild = "none"
    /\ pre = NoPre
    /\ fetched = "none"
    /\ wrote_meta = FALSE
    /\ verdict = << >>
    /\ got = NoFile
    /\ response = NoAnswer

\* API_LocalComparison.main line 20: get_latest_sample_timestamp() is given
\* an answer by the API and returns.
QueryOracle ==
    /\ pc = "oracle"
    /\ \E a \in ApiAnswers :
         /\ response' = a
         /\ latest' = get_latest_sample_timestamp(a)
    /\ pc' = "done"
    /\ UNCHANGED << files, proc, force, last_modified, up_to_date, sync,
                    rebuild, pre, verdict, fetched, wrote_meta, got >>

NextOracle ==
    \/ QueryOracle
    \/ Exit

SpecOracle == InitOracle /\ [][NextOracle]_vars

\* ------------------------------------------------------------------ claims

\* The mirror, the table and the watermark are what they were when the sync of
\* this run began.
UnchangedSincePre == mirror = pre.mirror /\ table = pre.table /\ meta = pre.meta

\* The download of this run returned the bytes of the mirror the sync found.
FetchedSameContent ==
    /\ pre.mirror.exists
    /\ tmp.exists
    /\ file_sha256(tmp) = file_sha256(pre.mirror)

\* C1: sync(force=false) is a no-op when the downloaded content has the digest
\* of the mirror: from the download to the return of main, the hash store, the
\* watermark and the mirror are what they were before the call, the result is
\* no_change once main returned past the comparison, and a sync without the
\* force flag starts a rebuild only over a mirror it has replaced.
C1_NoChangeIsNoOp ==
    /\ (pc \in { "initdb", "compare" } /\ FetchedSameContent /\ ~force) => UnchangedSincePre
    /\ sync = "no_change" => (UnchangedSincePre /\ ~force /\ rebuild = "none")
    /\ (~force /\ rebuild # "none" /\ pre.mirror.exists) => mirror # pre.mirror

\* C1 witness: a sync without force ended no_change over a mirror, a filled
\* store and a watermark.
C1_Witness ==
    /\ sync = "no_change"
    /\ pre.mirror.exists
    /\ pre.table.rows # << >>
    /\ pre.meta # NoMeta
    /\ UnchangedSincePre

\* C2: a sync whose download fails, with or without force, ends as failed at
\* once, with the mirror, the hash store and the watermark as before the sync
\* and without any rebuild step.
C2_DownloadFailureLeavesAll ==
    fetched = "failed" =>
        /\ sync = "failed"
        /\ rebuild = "none"
        /\ ~wrote_meta
        /\ UnchangedSincePre
        /\ pc \in { "lookup", "done", "crashed" }

\* C2 witness: a forced sync over a mirror, a filled store and a watermark
\* whose download failed.
C2_Witness ==
    /\ fetched = "failed"
    /\ force
    /\ pre.mirror.exists
    /\ pre.table.rows # << >>
    /\ pre.meta # NoMeta

\* main.py holds the result of a freshness check computed over the metadata
\* file as it is now.
Checked == proc = "lookup" /\ up_to_date # "unset" /\ pc \in { "download", "lookup" }

\* The check compared a watermark with a remote timestamp.
Comparable == Checked /\ meta # NoMeta /\ latest # None

\* C3, as claimed: the freshness check returns true when the watermark is at or
\* past the remote timestamp and false when it is before it, whatever the
\* mirror holds.
C3_Original ==
    Comparable => up_to_date = Str(strptime(meta) >= strptime(latest))

\* C3, amended: the freshness check returns true when the watermark is at or
\* past the remote timestamp; when the watermark is before it, the check
\* returns true exactly when last_modified (the newest first field of the
\* mirror as scanned when the process started, or the file's mtime) is at or
\* past the remote timestamp, and false otherwise.
C3_WatermarkThenMirror ==
    Comparable =>
        up_to_date = Str(\/ strptime(meta) >= strptime(latest)
                         \/ strptime(last_modified) >= strptime(latest))

\* C3 witness: the watermark is before the remote timestamp and the check
\* still answered true.
C3_Witness ==
    /\ Comparable
    /\ strptime(meta) < strptime(latest)
    /\ up_to_date = "True"

\* import_hashes.py of this run has committed its import.
StoreImported == pc = "metadata" \/ rebuild = "ok"

\* C4, as claimed: after a rebuild that completed successfully over a mirror
\* with a parseable first-seen timestamp, the watermark's timestamp is the
\* newest first-seen timestamp of that mirror.
C4_WatermarkIsNewest ==
    (rebuild = "ok" /\ newest_first_seen_from_csv(mirror) # 0) =>
        meta = strftime(newest_first_seen_from_csv(mirror))

\* C5, as claimed: in every state, a watermark that exists is at or before the
\* newest first-seen timestamp of the live mirror, when the mirror has one.
C5_WatermarkBackedByMirror ==
    (meta # NoMeta /\ mirror.exists /\ newest_first_seen_from_csv(mirror) # 0) =>
        strptime(meta) <= newest_first_seen_from_csv(mirror)

\* C6, as claimed: a rebuild over a mirror with a parseable timestamp ends
\* with the import committed and the watermark written, or with neither.
C6_StoreAndWatermarkTogether ==
    (rebuild \in { "ok", "failed" } /\ newest_first_seen_from_csv(mirror) # 0) =>
        (StoreImported <=> wrote_meta)

\* The sync of this run found the downloaded content equal to the mirror, had
\* the force flag, and went on to the rebuild.
ForcedPath == force /\ pre.mirror.exists /\ mirror = pre.mirror /\ rebuild # "none"

C8_NoneIsUnknown ==
    (Checked /\ latest = None) => up_to_date \notin { "True", "False" }

\* C9: the verdict of a lookup is known, with the label and family of the
\* store's row for the digest, when the digest is a key of the store, and
\* not known when it is not, the table missing included.
C9_LookupMatchesStore ==
    verdict # << >> =>
        LET v == verdict[1]
            hits == { i \in DOMAIN table.rows : table.rows[i].sha = v.file_hash }
        IN IF table.exists /\ hits # { }
           THEN /\ v.known_malware
                /\ \A i \in hits :
                     /\ v.malware_name = table.rows[i].name
                     /\ v.malware_family = table.rows[i].fam
           ELSE ~v.known_malware

\* C9 witness: a digest found in the second row of the store.
C9_Witness ==
    /\ verdict # << >>
    /\ verdict[1].known_malware
    /\ Len(table.rows) > 1
    /\ table.rows[1].sha # verdict[1].file_hash

\* C10: once a mirror is imported, importing it again leaves the store as it
\* is; the store never holds two rows for one digest, and the rows it held
\* before the import are kept as they were.
C10_ReimportIdempotent ==
    /\ NoDuplicateKeys(table)
    /\ StoreImported =>
          /\ ImportRows(table, mirror.rows) = table
          /\ \A i \in DOMAIN pre.table.rows :
               i \in DOMAIN table.rows /\ table.rows[i] = pre.table.rows[i]

\* C10 witness: the import ran over a store of two rows that already held a
\* digest the mirror lists under another label.
C10_Witness ==
    /\ StoreImported
    /\ Len(pre.table.rows) > 1
    /\ \E i \in DOMAIN mirror.rows, j \in DOMAIN pre.table.rows :
         /\ mirror.rows[i].sha # NoSha
         /\ lower(mirror.rows[i].sha) = pre.table.rows[j].sha
         /\ mirror.rows[i].name # pre.table.rows[j].name

\* C11, as claimed: after a successful rebuild every digest the mirror lists
\* has in the store a label, family and source the mirror gives it, and every
\* row of the store is for a digest the mirror lists.
C11_StoreRederivedFromMirror ==
    rebuild = "ok" =>
        LET listed == { i \in DOMAIN mirror.rows : mirror.rows[i].sha # NoSha }
        IN /\ \A i \in listed :
                \E j \in DOMAIN table.rows :
                  /\ table.rows[j].sha = lower(mirror.rows[i].sha)
                  /\ \E k \in listed :
                       /\ lower(mirror.rows[k].sha) = table.rows[j].sha
                       /\ table.rows[j].name = mirror.rows[k].name
                       /\ table.rows[j].fam = mirror.rows[k].fam
                       /\ table.rows[j].src = mirror.rows[k].src
           /\ \A j \in DOMAIN table.rows :
                \E i \in listed : lower(mirror.rows[i].sha) = table.rows[j].sha

\* C12, as claimed: a lookup against a database without the malware_hashes
\* table gives a not-known verdict whose reason is not the "no match" reason
\* of a digest absent from an initialized store.
C12_UninitializedIsDistinct ==
    (verdict # << >> /\ ~table.exists) =>
        /\ ~verdict[1].known_malware
        /\ verdict[1].detection_method # "No match in threat intelligence database"

\* C13, as claimed: a lookup run that was invoked validly ends with a verdict
\* printed, whatever failed on the way.
C13_LookupEndsWithVerdict ==
    (proc = "lookup" /\ pc \in { "done", "crashed" }) => verdict # << >>

\* The mirror is what the sync of this run found, or the complete response
\* body this run downloaded; never a half-written file.
MirrorIsWhole ==
    /\ mirror \in { NoFile } \cup Feeds
    /\ mirror \notin PartialFiles
    /\ sync # "none" => (mirror = pre.mirror \/ (fetched = "ok" /\ mirror = got))

\* The mirror changes only by os.replace of a TMP_FILE that download_csv of
\* this run wrote completely: the staging file becomes the mirror and is gone.
MirrorChangesByRename ==
    mirror' # mirror =>
        /\ pc = "compare"
        /\ fetched = "ok"
        /\ tmp = got
        /\ mirror' = tmp
        /\ tmp' = NoFile

\* C14: during a sync the live mirror is absent, the complete previous mirror
\* or the complete downloaded feed, never a partially written file, and it
\* changes only by the rename of a fully written staging file.
C14_StagingNeverVisible == [](MirrorIsWhole) /\ [][MirrorChangesByRename]_vars

\* C14 witness: a half-written staging file lies next to a mirror that an
\* earlier rename of a complete download put in place.
C14_Witness ==
    /\ tmp \in PartialFiles
    /\ mirror.exists
    /\ mirror.rows # << >>
    /\ sync = "failed"

\* C15, as claimed: after a successful rebuild, a freshness check re-run in
\* the same lookup run answers true whenever the newest timestamp of the
\* current mirror is at or past the remote timestamp, the watermark missing
\* or stale included.
C15_NoFalseStaleAfterRebuild ==
    ( /\ proc = "lookup"
      /\ pc \in { "lookup", "done", "crashed" }
      /\ rebuild = "ok"
      /\ latest # None
      /\ local_newest_first_seen(mirror) # 0
      /\ local_newest_first_seen(mirror) >= strptime(latest) )
    => up_to_date = "True"

\* C16, as claimed: a lookup run whose freshness check failed, instead of
\* returning true or false, has attempted a sync by the time it resolves the
\* query digest.
C16_FailedCheckAttemptsSync ==
    (proc = "lookup" /\ up_to_date = None /\ pc \in { "lookup", "done", "crashed" })
        => sync # "none"

\* C17: the watermark is written only after a successful import: a sync that
\* wrote it had a successful download and had committed the import of the
\* current mirror into the store, and it ends as replaced or rebuilt; a sync
\* that ends as no_change or failed wrote no watermark and leaves the one it
\* found; within a sync the watermark differs from the one found only by that
\* write.
C17_WatermarkOnlyAfterImport ==
    /\ wrote_meta =>
          /\ fetched = "ok"
          /\ got \in Feeds
          /\ table = ImportRows(CreateTable(pre.table), mirror.rows)
          /\ rebuild = "ok"
          /\ sync \in { "replaced", "rebuilt" }
          /\ meta = strftime(newest_first_seen_from_csv(mirror))
    /\ sync \in { "no_change", "failed" } => (~wrote_meta /\ meta = pre.meta)
    /\ (sync # "none" /\ meta # pre.meta) => wrote_meta

\* C17 witness: a sync that replaced the mirror and grew the store has moved
\* the watermark it found.
C17_Witness ==
    /\ wrote_meta
    /\ sync = "replaced"
    /\ table # pre.table
    /\ pre.meta # NoMeta
    /\ meta # pre.meta

\* The first_seen strings of an answer that parse.
Parseable(stamps) == SelectSeq(stamps, LAMBDA t : strptime(t) # 0)

\* The rows of a file whose first field parses.
DatedRows(file) == SelectSeq(file.rows, LAMBDA r : strptime(r.ts) # 0)

\* C18, as claimed: a record with an unparseable timestamp or a malformed row
\* is skipped and the remaining records decide the result: the oracle returns
\* the newest parseable first_seen of a usable answer, the scan of the mirror
\* gives the newest first field that parses, and the import stores every row
\* of the mirror that has a digest.
C18_BadRecordIsSkipped ==
    /\ (response # NoAnswer /\ response.ok /\ Parseable(response.data) # << >>) =>
          latest = strftime(MaxDt(Parseable(response.data)))
    /\ (proc = "lookup" /\ pc \in { "check", "oracle" } /\ DatedRows(mirror) # << >>) =>
          \E i \in DOMAIN mirror.rows :
              /\ last_modified = mirror.rows[i].ts
              /\ \A j \in DOMAIN mirror.rows :
                   strptime(mirror.rows[j].ts) <= strptime(mirror.rows[i].ts)
    /\ StoreImported =>
          \A i \in DOMAIN mirror.rows :
              mirror.rows[i].sha # NoSha => HasKey(table, lower(mirror.rows[i].sha))

\* C19, as claimed: a sync that found no live mirror and whose download
\* succeeded ends with the rebuild started, the mirror equal to the downloaded
\* content and no staging file left.
C19_FirstRunBootstrap ==
    (sync \notin { "none", "running" } /\ ~pre.mirror.exists /\ fetched = "ok") =>
        /\ rebuild # "none"
        /\ mirror = got
        /\ ~tmp.exists

\* A lookup run that has started no sync has downloaded nothing, rebuilt
\* nothing and written no watermark.
NoSyncNoEffect ==
    (proc = "lookup" /\ sync = "none") =>
        /\ fetched = "none"
        /\ got = NoFile
        /\ rebuild = "none"
        /\ ~wrote_meta

\* A lookup run starts its sync only at the initial check, on the answer
\* False, and until then no step of it touches a file.
SyncOnlyOnFalse ==
    /\ (proc' = "lookup" /\ sync = "none" /\ sync' # "none") =>
          (pc = "check" /\ up_to_date' = "False")
    /\ (proc = "lookup" /\ sync = "none") => UNCHANGED files

\* C20: in a lookup run a sync is started only when the initial freshness
\* check returned false; when it returned true the run downloads nothing,
\* swaps no mirror, rebuilds nothing and leaves the mirror, the hash store and
\* the watermark as they are, the force flag set or not.
C20_SyncOnlyWhenStale == [](NoSyncNoEffect) /\ [][SyncOnlyOnFalse]_vars

\* C20 witness: a lookup run with the force flag whose check answered true
\* over a watermark has printed its verdict without a sync.
C20_Witness ==
    /\ proc = "lookup"
    /\ force
    /\ up_to_date = "True"
    /\ sync = "none"
    /\ meta # NoMeta
    /\ verdict # << >>

====
